---- MODULE Spec2Model ----
(***************************************************************************)
(* State-machine model of calibration/wrcalibration.py (class              *)
(* WR_calibration): the calibration record and its text file format, the   *)
(* session's device/instrument handles, and the three estimators           *)
(* fiber_latency, fiber_asymmetry and calibrate_device_port.               *)
(*                                                                         *)
(* Numbers.  Python floats are modelled by exact rationals <<n, d>> in     *)
(* lowest terms (d > 0).  TLC integers are 32 bits wide, so                *)
(*  - times are counted in units of 10 ps and the instrument's readings in *)
(*    ticks of 1e-10 s: the source's literals 1e12 (s -> ps), 1e-6 s and   *)
(*    1e10 ps become TickToUnit, SkewLimit (in ticks) and InitialSkew;     *)
(*  - an asymmetry value (2^40 * q) is a wide number: sign, integer part   *)
(*    top * 2^40 + hi * 2^20 + lo, and a fraction fn/fd in [0, 1).         *)
(* Text.  A line of the record file is a sequence of symbols: one-char     *)
(* strings for separators, digits, "." and "-", and one atomic symbol for  *)
(* a name without separators ("delta1", "blue-wr1", "fiber-latency").      *)
(***************************************************************************)
EXTENDS Integers, Sequences, FiniteSets, TLC

(***************************************************************************)
(* Exact arithmetic                                                        *)
(***************************************************************************)
Abs(x) == IF x < 0 THEN -x ELSE x

\* (in GCD, Norm and RAdd a set of one element binds each argument, so that
\* an argument that is itself a long expression is evaluated once)
RECURSIVE GCD(_, _)
GCD(a, b) ==
    IF b = 0 THEN a ELSE CHOOSE g \in {GCD(y, x % y) : x \in {a}, y \in {b}} : TRUE

\* n/d in lowest terms, d > 0
Reduce(n, d) ==
    LET s == IF d < 0 THEN -1 ELSE 1
        g == GCD(Abs(n), Abs(d))
    IN  <<(s * n) \div g, (s * d) \div g>>
Norm(n, d) == CHOOSE r \in {Reduce(x, y) : x \in {n}, y \in {d}} : TRUE

Rat(n) == <<n, 1>>
RNeg(a) == <<-a[1], a[2]>>
RAbs(a) == <<Abs(a[1]), a[2]>>
RAdd(a, b) ==
    CHOOSE r \in {Norm(x[1] * y[2] + y[1] * x[2], x[2] * y[2]) : x \in {a}, y \in {b}} : TRUE
RSub(a, b) == RAdd(a, RNeg(b))
\* the product, cancelling across before multiplying
RMul(a, b) ==
    LET g1 == GCD(Abs(a[1]), b[2])
        g2 == GCD(Abs(b[1]), a[2])
    IN  IF a[1] = 0 \/ b[1] = 0 THEN <<0, 1>>
        ELSE <<(a[1] \div g1) * (b[1] \div g2), (a[2] \div g2) * (b[2] \div g1)>>
RInv(a) == IF a[1] > 0 THEN <<a[2], a[1]>> ELSE <<-a[2], -a[1]>>
\* a / b for b # 0 (Python raises ZeroDivisionError on b = 0: the callers test it)
RDiv(a, b) == RMul(a, RInv(b))
RLt(a, b) == a[1] * b[2] < b[1] * a[2]
RLe(a, b) == a[1] * b[2] <= b[1] * a[2]
RIsZero(a) == a[1] = 0
Half == <<1, 2>>

\* int(x): truncation towards zero
\* a variant of RTrunc that rounds down (floor), to test the formula of C8
RFloor(a) == IF a[1] >= 0 THEN a[1] \div a[2] ELSE -((-a[1] + a[2] - 1) \div a[2])
RTrunc(a) == IF a[1] >= 0 THEN a[1] \div a[2] ELSE -((-a[1]) \div a[2])

\* round(10 * x) to the nearest integer, ties to even: the tenths "%.1f" prints
\* (exact for the binary fractions, which are the only exact ties of a float)
RTenths(a) ==
    LET m == Abs(a[1]) * 10
        q == m \div a[2]
        r == m % a[2]
        up == (2 * r > a[2]) \/ (2 * r = a[2] /\ q % 2 = 1)
        t == IF up THEN q + 1 ELSE q
    IN  IF a[1] < 0 THEN -t ELSE t

(***************************************************************************)
(* Wide numbers for the asymmetry coefficient                              *)
(***************************************************************************)
Limb == 1048576
Chunk == 1024

\* the value sign * (top * 2^40 + hi * 2^20 + lo + fn/fd) with hi, lo < 2^20;
\* zero is not negative (-0.0 == 0.0)
Wide(neg, top, hi, lo, fn, fd) ==
    LET f == Norm(fn, fd)
    IN  [neg |-> neg /\ (top # 0 \/ hi # 0 \/ lo # 0 \/ fn # 0),
         top |-> top, hi |-> hi, lo |-> lo, fn |-> f[1], fd |-> f[2]]

WNeg(w) == Wide(~w.neg, w.top, w.hi, w.lo, w.fn, w.fd)
\* int(w), as "%d" prints it
WTrunc(w) == Wide(w.neg, w.top, w.hi, w.lo, 0, 1)

\* pow(2,40) * q for a rational q, by long division in four base-2^10 digits
Pow2_40Times(q) ==
    LET n  == Abs(q[1])
        d  == q[2]
        ip == n \div d
        r0 == n % d
        d1 == (r0 * Chunk) \div d
        r1 == (r0 * Chunk) % d
        d2 == (r1 * Chunk) \div d
        r2 == (r1 * Chunk) % d
        d3 == (r2 * Chunk) \div d
        r3 == (r2 * Chunk) % d
        d4 == (r3 * Chunk) \div d
        r4 == (r3 * Chunk) % d
    IN  Wide(q[1] < 0, ip, d1 * Chunk + d2, d3 * Chunk + d4, r4, d)

(***************************************************************************)
(* Text: splitting, float(), "%d" and "%.1f"                               *)
(***************************************************************************)
SP == " "
NL == "\n"
DigitSyms == {ToString(d) : d \in 0..9}
DigitVal(c) == CHOOSE d \in 0..9 : ToString(d) = c

\* str.split(sep): the pieces between the separators ("" gives [""])
RECURSIVE Split(_, _)
Split(s, sep) ==
    IF \A i \in 1..Len(s) : s[i] # sep THEN <<s>>
    ELSE LET i == CHOOSE k \in 1..Len(s) :
                     s[k] = sep /\ \A j \in 1..(k - 1) : s[j] # sep
         IN  <<SubSeq(s, 1, i - 1)>> \o Split(SubSeq(s, i + 1, Len(s)), sep)

\* s[:-1]
DropLast(s) == SubSeq(s, 1, Len(s) - 1)

RECURSIVE StripLeft(_)
StripLeft(s) ==
    IF s # <<>> /\ s[1] \in {SP, NL} THEN StripLeft(Tail(s)) ELSE s
RECURSIVE StripRight(_)
StripRight(s) ==
    IF s # <<>> /\ s[Len(s)] \in {SP, NL} THEN StripRight(DropLast(s)) ELSE s

AllDigits(s) == \A i \in 1..Len(s) : s[i] \in DigitSyms

\* float(s) as far as the decimal literals go: surrounding white space is
\* dropped, then [sign] digits [. [digits]] or [sign] . digits; anything else
\* is a ValueError (ok = FALSE)
ParseFloat(s) ==
    LET t    == StripRight(StripLeft(s))
        neg  == t # <<>> /\ t[1] = "-"
        u    == IF t # <<>> /\ t[1] \in {"-", "+"} THEN Tail(t) ELSE t
        pcs  == Split(u, ".")
        ip   == pcs[1]
        fp   == IF Len(pcs) = 2 THEN pcs[2] ELSE <<>>
        ok   == /\ Len(pcs) <= 2
                /\ AllDigits(ip) /\ AllDigits(fp)
                /\ Len(ip) + Len(fp) > 0
    IN  [ok |-> ok, neg |-> neg, ip |-> ip, fp |-> fp]

RECURSIVE DigitsValue(_)
DigitsValue(ds) ==
    IF ds = <<>> THEN 0 ELSE DigitsValue(DropLast(ds)) * 10 + DigitVal(ds[Len(ds)])
RECURSIVE Pow10(_)
Pow10(k) == IF k = 0 THEN 1 ELSE 10 * Pow10(k - 1)

\* the float a parsed literal denotes, as a rational
RatOf(p) ==
    LET m == DigitsValue(p.ip) * Pow10(Len(p.fp)) + DigitsValue(p.fp)
    IN  Norm(IF p.neg THEN -m ELSE m, Pow10(Len(p.fp)))

\* the same as a wide number
RECURSIVE WideDigitsValue(_)
WideDigitsValue(ds) ==
    IF ds = <<>> THEN <<0, 0, 0>>
    ELSE LET v == WideDigitsValue(DropLast(ds))
             l == v[3] * 10 + DigitVal(ds[Len(ds)])
             h == v[2] * 10 + l \div Limb
         IN  <<v[1] * 10 + h \div Limb, h % Limb, l % Limb>>
WideOf(p) ==
    LET v == WideDigitsValue(p.ip)
    IN  Wide(p.neg, v[1], v[2], v[3], DigitsValue(p.fp), Pow10(Len(p.fp)))

RECURSIVE DigitsOf(_)
DigitsOf(n) ==
    IF n < 10 THEN <<ToString(n)>> ELSE DigitsOf(n \div 10) \o <<ToString(n % 10)>>
RECURSIVE WideDigitsOf(_, _, _)
WideDigitsOf(top, hi, lo) ==
    IF top = 0 /\ hi = 0 THEN DigitsOf(lo)
    ELSE LET h == (top % 10) * Limb + hi
             l == (h % 10) * Limb + lo
         IN  WideDigitsOf(top \div 10, h \div 10, l \div 10) \o <<ToString(l % 10)>>

\* "%d" % x for a float x: int(x), then decimal digits
FmtD(a) ==
    LET t == RTrunc(a)
    IN  (IF t < 0 THEN <<"-">> ELSE <<>>) \o DigitsOf(Abs(t))
FmtDWide(w) ==
    (IF w.neg /\ (w.top # 0 \/ w.hi # 0 \/ w.lo # 0) THEN <<"-">> ELSE <<>>)
        \o WideDigitsOf(w.top, w.hi, w.lo)
\* "%.1f" % x: the sign of x (also of -0.04: "-0.0"), then one decimal
Fmt1f(a) ==
    LET t == Abs(RTenths(a))
    IN  (IF a[1] < 0 THEN <<"-">> ELSE <<>>)
            \o DigitsOf(t \div 10) \o <<".", ToString(t % 10)>>

(***************************************************************************)
(* The calibration record (cfg_dict) and its file                          *)
(***************************************************************************)
LAT == "fiber-latency"
ASYM == "fiber-asymmetry"
DELAY == "port-delay"

MkCfg(d1, d2, asym, delay) ==
    (LAT :> [delta1 |-> d1, delta2 |-> d2]) @@ (ASYM :> asym) @@ (DELAY :> delay)

\* what __init__ leaves in cfg_dict
EmptyCfg == MkCfg(Rat(0), Rat(0), <<>>, <<>>)

\* d[k] = v on a dict
Put(d, k, v) == (k :> v) @@ d

RECURSIVE Join(_)
Join(s) == IF s = <<>> THEN "" ELSE s[1] \o Join(Tail(s))

NoError == "none"
Raise(st, e) == [st EXCEPT !.err = e]

\* read_config, the block of flag == 1: both numbers are parsed, then stored
ReadLatencyLine(st, line) ==
    IF st.err # NoError \/ st.flag # 1 THEN st
    ELSE LET s0 == [st EXCEPT !.flag = 0]
             w  == Split(line, SP)
             f1 == Split(w[1], ":")
             p1 == ParseFloat(f1[2])
             f2 == Split(w[2], ":")
             p2 == ParseFloat(DropLast(f2[2]))
         IN  IF Len(f1) < 2 THEN Raise(s0, "IndexError")
             ELSE IF ~p1.ok THEN Raise(s0, "ValueError")
             ELSE IF Len(w) < 2 \/ Len(f2) < 2 THEN Raise(s0, "IndexError")
             ELSE IF ~p2.ok THEN Raise(s0, "ValueError")
             ELSE [s0 EXCEPT !.cfg[LAT] = [delta1 |-> RatOf(p1), delta2 |-> RatOf(p2)]]

\* one turn of the loop "for i in line.split(' ')" of the block of flag == 2
ReadAsymToken(st, i) ==
    IF st.err # NoError \/ i = <<NL>> THEN st
    ELSE LET f  == Split(i, ":")
             v  == f[2]
             nl == v[Len(v)] = NL
             s1 == IF nl THEN [st EXCEPT !.flag = 0] ELSE st
             p  == ParseFloat(IF nl THEN DropLast(v) ELSE v)
         IN  IF Len(f) < 2 \/ v = <<>> THEN Raise(st, "IndexError")
             ELSE IF ~p.ok THEN Raise(s1, "ValueError")
             ELSE [s1 EXCEPT !.cfg[ASYM] = Put(@, Join(f[1]), WideOf(p))]

\* one turn of the loop of the block of flag == 3
ReadDelayToken(st, i) ==
    IF st.err # NoError \/ i = <<NL>> THEN st
    ELSE LET f    == Split(i, ":")
             c    == Split(f[2], ",")
             drxs == c[2]
             nl   == drxs[Len(drxs)] = NL
             s1   == IF nl THEN [st EXCEPT !.flag = 0] ELSE st
             ptx  == ParseFloat(c[1])
             prx  == ParseFloat(IF nl THEN DropLast(drxs) ELSE drxs)
         IN  IF Len(f) < 2 \/ Len(c) < 2 \/ drxs = <<>> THEN Raise(st, "IndexError")
             ELSE IF ~ptx.ok \/ ~prx.ok THEN Raise(s1, "ValueError")
             ELSE [s1 EXCEPT !.cfg[DELAY] = Put(@, Join(f[1]), <<RatOf(ptx), RatOf(prx)>>)]

RECURSIVE ReadAsymTokens(_, _)
ReadAsymTokens(st, toks) ==
    IF toks = <<>> THEN st ELSE ReadAsymTokens(ReadAsymToken(st, toks[1]), Tail(toks))
RECURSIVE ReadDelayTokens(_, _)
ReadDelayTokens(st, toks) ==
    IF toks = <<>> THEN st ELSE ReadDelayTokens(ReadDelayToken(st, toks[1]), Tail(toks))

ReadAsymLine(st, line) ==
    IF st.err # NoError \/ st.flag # 2 THEN st ELSE ReadAsymTokens(st, Split(line, SP))
ReadDelayLine(st, line) ==
    IF st.err # NoError \/ st.flag # 3 THEN st ELSE ReadDelayTokens(st, Split(line, SP))

\* the marker a line "@<name>\n" selects: key = line[1:-1]
MarkerFlag(flag, line) ==
    LET key == Join(SubSeq(line, 2, Len(line) - 1))
    IN  IF key = DELAY THEN 3
        ELSE IF key = ASYM THEN 2
        ELSE IF key = LAT THEN 1
        ELSE flag

\* the body of "for line in cfg"
ReadLine(st, line) ==
    IF st.err # NoError THEN st
    ELSE IF line[1] = "#" THEN st
    ELSE IF line[1] = "@" THEN [st EXCEPT !.flag = MarkerFlag(st.flag, line)]
    ELSE ReadDelayLine(ReadAsymLine(ReadLatencyLine(st, line), line), line)

RECURSIVE ReadLines(_, _)
ReadLines(st, lines) ==
    IF lines = <<>> THEN st ELSE ReadLines(ReadLine(st, lines[1]), Tail(lines))

\* read_config on the record cfg: the record it leaves and the error it raised
ReadConfigOn(cfg, file) ==
    ReadLines([cfg |-> cfg, flag |-> 0, err |-> NoError], file)

\* the orders a dict of these keys can be iterated in
KeyOrders(S) ==
    {o \in [1..Cardinality(S) -> S] : \A i, j \in DOMAIN o : i # j => o[i] # o[j]}

RECURSIVE AsymText(_, _)
AsymText(asym, order) ==
    IF order = <<>> THEN <<>>
    ELSE <<order[1], ":">> \o FmtDWide(asym[order[1]]) \o <<SP>>
             \o AsymText(asym, Tail(order))
RECURSIVE DelayText(_, _)
DelayText(delay, order) ==
    IF order = <<>> THEN <<>>
    ELSE <<order[1], ":">> \o FmtD(delay[order[1]][1]) \o <<",">>
             \o FmtD(delay[order[1]][2]) \o <<SP>> \o DelayText(delay, Tail(order))

\* the file write_config writes for cfg, its dicts iterated in the orders oa, od
WriteConfigOf(cfg, oa, od) ==
    << <<"#", "time", NL>>,
       <<"@", LAT, NL>>,
       <<"delta1", ":">> \o Fmt1f(cfg[LAT].delta1) \o <<SP, "delta2", ":">>
           \o Fmt1f(cfg[LAT].delta2) \o <<NL>>,
       <<"@", ASYM, NL>>,
       AsymText(cfg[ASYM], oa) \o <<NL>>,
       <<"@", DELAY, NL>>,
       DelayText(cfg[DELAY], od) \o <<NL>> >>

(***************************************************************************)
(* Record files found on disk besides the one write_config writes          *)
(***************************************************************************)
\* a complete record, in the layout write_config emits
FileFull ==
    << <<"#", "time", NL>>,
       <<"@", LAT, NL>>,
       <<"delta1", ":", "1", "2", ".", "5", SP, "delta2", ":", "2", "0", "0", ".", "0", NL>>,
       <<"@", ASYM, NL>>,
       <<"blue-wr1", ":", "5", SP,
         "violet-wr1", ":", "-", "2", "1", "9", "9", "0", "2", "3", "2", "5", "5", "5", "5",
         SP, NL>>,
       <<"@", DELAY, NL>>,
       <<"blue-wr1", ":", "4", "0", ",", "4", "4", SP, NL>> >>
\* a record with a latency only (delta2 = 0): both dicts empty
FileLatency ==
    << <<"#", "time", NL>>,
       <<"@", LAT, NL>>,
       <<"delta1", ":", "3", ".", "0", SP, "delta2", ":", "0", ".", "0", NL>>,
       <<"@", ASYM, NL>>,
       <<NL>>,
       <<"@", DELAY, NL>>,
       <<NL>> >>
\* an asymmetry without a latency measurement (delta1 = 0)
FileNoLatency ==
    << <<"@", LAT, NL>>,
       <<"delta1", ":", "0", ".", "0", SP, "delta2", ":", "0", ".", "0", NL>>,
       <<"@", ASYM, NL>>,
       <<"blue-wr1", ":", "5", SP, NL>>,
       <<"@", DELAY, NL>>,
       <<NL>> >>
\* hand-edited values with fractions
FileFractions ==
    << <<"@", LAT, NL>>,
       <<"delta1", ":", "0", ".", "2", "5", SP, "delta2", ":", "-", "0", ".", "7", "5", NL>>,
       <<"@", ASYM, NL>>,
       <<"violet-wr1", ":", "2", ".", "7", "5", SP, NL>>,
       <<"@", DELAY, NL>>,
       <<"violet-wr1", ":", "-", "5", ".", "5", ",", "2", ".", "5", SP, NL>> >>
\* a token without ':' after a good one
FileMissingColon ==
    << <<"@", LAT, NL>>,
       <<"delta1", ":", "7", ".", "0", SP, "delta2", ":", "9", ".", "0", NL>>,
       <<"@", ASYM, NL>>,
       <<"blue-wr1", ":", "5", SP, "violet-wr1", SP, NL>>,
       <<"@", DELAY, NL>>,
       <<"blue-wr1", ":", "1", ",", "2", SP, NL>> >>
\* a value that is no number after a good token
FileNotANumber ==
    << <<"@", DELAY, NL>>,
       <<"blue-wr1", ":", "1", ",", "2", SP, "violet-wr1", ":", "x", ",", "3", SP, NL>> >>
\* comment lines and blank lines: at the top, a comment after the latency
\* marker, blank and comment lines after the other two markers
FileCommented ==
    << <<"#", "time", NL>>,
       <<NL>>,
       <<"@", LAT, NL>>,
       <<"#", "note", NL>>,
       <<"delta1", ":", "8", ".", "0", SP, "delta2", ":", "6", ".", "0", NL>>,
       <<"@", ASYM, NL>>,
       <<NL>>,
       <<"#", "note", NL>>,
       <<"blue-wr1", ":", "3", SP, NL>>,
       <<"@", DELAY, NL>>,
       <<NL>>,
       <<"blue-wr1", ":", "2", ",", "1", SP, NL>> >>
\* a blank line directly after the latency marker
FileBlankLatency ==
    << <<"@", LAT, NL>>,
       <<NL>>,
       <<"delta1", ":", "8", ".", "0", SP, "delta2", ":", "6", ".", "0", NL>>,
       <<"@", ASYM, NL>>,
       <<"blue-wr1", ":", "3", SP, NL>>,
       <<"@", DELAY, NL>>,
       <<NL>> >>
\* a second line of tokens after the payload line of the asymmetry block
FileExtraLine ==
    << <<"@", LAT, NL>>,
       <<"delta1", ":", "8", ".", "0", SP, "delta2", ":", "6", ".", "0", NL>>,
       <<"spare", ":", "1", SP, NL>>,
       <<"@", ASYM, NL>>,
       <<"blue-wr1", ":", "3", SP, NL>>,
       <<"violet-wr1", ":", "4", SP, NL>>,
       <<"@", DELAY, NL>>,
       <<NL>> >>

Files ==
    {FileFull, FileLatency, FileNoLatency, FileFractions, FileMissingColon, FileNotANumber,
     FileCommented, FileBlankLatency, FileExtraLine}

(***************************************************************************)
(* Parameters and the answers of the devices, the instrument, the operator *)
(***************************************************************************)
Sessions == {1, 2}
Sfps == {"blue", "violet"}
Ports == {1}
NSamples == {1, 2}
\* get_rtt(), in units of 10 ps
RttValues == {1000, 1205}
\* get_phy_delays(): node -> (tx delay, bit-slide)
PhyDelays ==
    { [master |-> <<4, 1>>, slave |-> <<0, 2>>],
      [master |-> <<6, 3>>, slave |-> <<0, 5>>] }
\* mean_time_interval(), in ticks of 1e-10 s
Readings == {-10000, -3, 1, 11, 10000}

\* units: 1e12 ps per second is 10 units per tick
TickToUnit == 10
\* 1e-6 s in ticks
SkewLimit == 10000
\* 1e10 ps in units
InitialSkew == 1000000000
\* times
Times == 10
\* the convergence thresholds tried (in units)
Errors == {0, 10, InitialSkew}
\* mean_time_interval() during the refinement, in ticks
SkewReadings == {-3, 0, 1}

\* the bounds of the model
MaxDevices == 2
MaxRuns == 1
MaxFileOps == 3
\* estimator runs in a row, one after the other, of one session
MaxSeqRuns == 3

(***************************************************************************)
(* State                                                                   *)
(***************************************************************************)
VARIABLES
    cfg_dict,       \* WR_calibration.cfg_dict: one dict object shared by all sessions
    class_devices,  \* length of the class attribute WR_calibration.devices
    has_own,        \* has_own[s]: session s has its own attribute devices
    own_devices,    \* own_devices[s]: its length
    instr,          \* instr[s]: session s has an instrument (self.instr # None)
    live,           \* live[s]: session s has been constructed
    disk,           \* the file write_config writes
    pc,             \* "idle", or the place of the estimator in progress
    call,           \* the operation in progress, or the last one
    loc,            \* the local variables of the estimator in progress
    err,            \* the exception the last operation raised, or NoError
    log,            \* the commands sent and acknowledgments got in this call
    hist,           \* what this call measured (history)
    left            \* operations left within the bounds

vars == <<cfg_dict, class_devices, has_own, own_devices, instr, live, disk, pc,
          call, loc, err, log, hist, left>>
session_vars == <<class_devices, has_own, own_devices, instr, live>>

\* self.cfg_dict as session s sees it: no method rebinds it, so it is the
\* dict of the class for every session
Record(s) == cfg_dict
\* self.devices and len(self.devices) as session s sees it
Devices(s) == IF has_own[s] THEN own_devices[s] ELSE class_devices

\* readings: what mean_time_interval() returned to fiber_asymmetry;
\* sum, n: the sum (in units) and the number of the skews of the refinement
\* loop; conv: which of them was the first within the error, 0 for none;
\* rtts: what get_rtt() returned, one sequence per batch of reads;
\* phys: what get_phy_delays() returned, one per call
NoHist == [readings |-> <<>>, sum |-> 0, n |-> 0, conv |-> 0, rtts |-> <<>>, phys |-> <<>>]
NoLoc == <<>>
NoDisk == [exists |-> FALSE, lines |-> <<>>, of |-> EmptyCfg]

Call(op, s, sfp, port, n, error) ==
    [op |-> op, s |-> s, sfp |-> sfp, port |-> port, n_samples |-> n,
     error |-> error, file |-> <<>>, ndev |-> Devices(s), instr |-> instr[s],
     pre |-> cfg_dict]
Call0(op, s) == Call(op, s, "", 0, 0, 0)

Init ==
    /\ cfg_dict = EmptyCfg
    /\ class_devices = 0
    /\ has_own = [s \in Sessions |-> FALSE]
    /\ own_devices = [s \in Sessions |-> 0]
    /\ instr = [s \in Sessions |-> FALSE]
    /\ live = [s \in Sessions |-> s = 1]
    /\ disk = NoDisk
    /\ pc = "idle"
    /\ call = [op |-> "__init__", s |-> 1, sfp |-> "", port |-> 0, n_samples |-> 0,
               error |-> 0, file |-> <<>>, ndev |-> 0, instr |-> FALSE,
               pre |-> EmptyCfg]
    /\ loc = NoLoc
    /\ err = NoError
    /\ log = <<>>
    /\ hist = NoHist
    /\ left = [runs |-> MaxRuns, files |-> MaxFileOps]

\* an operation that ends at once: its call, its error, no commands
Ends(c, e) ==
    /\ call' = c
    /\ err' = e
    /\ pc' = "idle"
    /\ loc' = NoLoc
    /\ log' = <<>>
    /\ hist' = NoHist

(***************************************************************************)
(* Session                                                                 *)
(***************************************************************************)
\* WR_calibration(): __init__ writes into the shared class dict
Construct(s) ==
    /\ pc = "idle"
    /\ live' = [live EXCEPT ![s] = TRUE]
    /\ cfg_dict' = EmptyCfg
    /\ has_own' = [has_own EXCEPT ![s] = FALSE]
    /\ own_devices' = [own_devices EXCEPT ![s] = 0]
    /\ instr' = [instr EXCEPT ![s] = FALSE]
    /\ Ends([Call0("__init__", s) EXCEPT !.ndev = class_devices, !.instr = FALSE], NoError)
    /\ UNCHANGED <<class_devices, disk, left>>

\* add_wr_device: self.devices.append(...), or DeviceNotFound for an unknown name
AddWrDevice(s, known) ==
    /\ pc = "idle" /\ live[s]
    /\ Devices(s) < MaxDevices
    /\ IF ~known
       THEN UNCHANGED <<class_devices, own_devices>>
       ELSE IF has_own[s]
       THEN /\ own_devices' = [own_devices EXCEPT ![s] = @ + 1]
            /\ UNCHANGED class_devices
       ELSE /\ class_devices' = class_devices + 1
            /\ UNCHANGED own_devices
    /\ Ends(Call0("add_wr_device", s), IF known THEN NoError ELSE "DeviceNotFound")
    /\ UNCHANGED <<cfg_dict, has_own, instr, live, disk, left>>

\* remove_wr_devices: closes the devices, then self.devices = []
RemoveWrDevices(s) ==
    /\ pc = "idle" /\ live[s]
    /\ has_own' = [has_own EXCEPT ![s] = TRUE]
    /\ own_devices' = [own_devices EXCEPT ![s] = 0]
    /\ Ends(Call0("remove_wr_devices", s), NoError)
    /\ UNCHANGED <<cfg_dict, class_devices, instr, live, disk, left>>

\* add_meas_instr: self.instr = ..., or DeviceNotFound
AddMeasInstr(s, known) ==
    /\ pc = "idle" /\ live[s]
    /\ instr' = [instr EXCEPT ![s] = @ \/ known]
    /\ Ends(Call0("add_meas_instr", s), IF known THEN NoError ELSE "DeviceNotFound")
    /\ UNCHANGED <<cfg_dict, class_devices, has_own, own_devices, live, disk, left>>

(***************************************************************************)
(* Record files                                                            *)
(***************************************************************************)
\* read_config(cfg_file) on a file of the disk
ReadConfigFrom(s, file) ==
    LET r == ReadConfigOn(cfg_dict, file)
    IN  /\ pc = "idle" /\ live[s] /\ left.files > 0
        /\ cfg_dict' = r.cfg
        /\ Ends([Call0("read_config", s) EXCEPT !.file = file], r.err)
        /\ left' = [left EXCEPT !.files = @ - 1]
        /\ UNCHANGED <<session_vars, disk>>

ReadConfig(s) == \E f \in Files : ReadConfigFrom(s, f)

\* read_config on the file write_config wrote
ReadBack(s) == disk.exists /\ ReadConfigFrom(s, disk.lines)

\* write_config(out_file)
WriteConfig(s) ==
    /\ pc = "idle" /\ live[s] /\ left.files > 0
    /\ \E oa \in KeyOrders(DOMAIN cfg_dict[ASYM]), od \in KeyOrders(DOMAIN cfg_dict[DELAY]) :
          disk' = [exists |-> TRUE, lines |-> WriteConfigOf(cfg_dict, oa, od),
                   of |-> cfg_dict]
    /\ Ends(Call0("write_config", s), NoError)
    /\ left' = [left EXCEPT !.files = @ - 1]
    /\ UNCHANGED <<cfg_dict, session_vars>>

(***************************************************************************)
(* Helpers of the estimators                                               *)
(***************************************************************************)
fibers == <<"f1", "f2", "f1+f2">>

\* "%s-wr%d" % (sfp, port)
KeyOf(sfp, port) == sfp \o "-wr" \o ToString(port)

\* erase, write and load the SFP database of both devices and set their roles
SetupPair ==
    <<"master.erase_sfp_config", "slave.erase_sfp_config",
      "slave.write_sfp_config", "master.write_sfp_config",
      "master.load_sfp_config", "slave.load_sfp_config",
      "slave.set_slaveport", "master.set_master">>
\* the same for the one device calibrate_device_port drives
SetupOne ==
    <<"slave.erase_sfp_config", "slave.write_sfp_config",
      "slave.load_sfp_config", "slave.set_slaveport">>
Rewrite ==
    <<"slave.erase_sfp_config", "slave.write_sfp_config", "slave.load_sfp_config">>

\* a variant that polls once and goes on whatever the answer, to test the
\* formula of C18
TrackPhase_Once(at, to, locked) ==
    /\ pc = at
    /\ pc' = to
    /\ log' = IF locked THEN Append(log, "slave.in_trackphase") ELSE log
    /\ UNCHANGED <<cfg_dict, session_vars, disk, call, loc, err, hist, left>>

\* "while not slave.in_trackphase(): time.sleep(2)": an unlocked answer
\* changes nothing, the locked one is logged and ends the wait
TrackPhase(at, to, locked) ==
    /\ pc = at
    /\ IF locked
       THEN /\ pc' = to
            /\ log' = Append(log, "slave.in_trackphase")
            /\ UNCHANGED <<cfg_dict, session_vars, disk, call, loc, err, hist, left>>
       ELSE UNCHANGED vars

\* an estimator starts: its call, and either the exception of its precondition
\* or its first commands
Starts(c, e, first_pc, first_loc, first_log) ==
    /\ pc = "idle" /\ live[c.s] /\ left.runs > 0
    /\ call' = c
    /\ err' = e
    /\ hist' = NoHist
    /\ left' = [left EXCEPT !.runs = @ - 1]
    /\ IF e # NoError
       THEN pc' = "idle" /\ loc' = NoLoc /\ log' = <<>>
       ELSE pc' = first_pc /\ loc' = first_loc /\ log' = first_log
    /\ UNCHANGED <<cfg_dict, session_vars, disk>>

\* a step that only moves on and logs
Moves(to, l) ==
    /\ pc' = to
    /\ log' = l
    /\ UNCHANGED <<cfg_dict, session_vars, disk, call, loc, err, hist, left>>

(***************************************************************************)
(* fiber_latency                                                           *)
(***************************************************************************)
FiberLatencyCheck(ndev) ==
    IF ndev < 2 THEN "WRDeviceNeeded" ELSE NoError

FL_Call(s, n) ==
    /\ live[s]
    /\ Starts(Call("fiber_latency", s, "", 1, n, 0),
           FiberLatencyCheck(Devices(s)),
           "fl_ack",
           [fiber |-> 1, mean_rtt |-> 0, k |-> 0, rtt_dict |-> <<>>, delays_dict |-> <<>>],
           SetupPair)

\* a variant that samples right after the acknowledgment, to test the
\* formula of C16
FL_Ack_NoWait ==
    /\ pc = "fl_ack"
    /\ Moves("fl_rtt", Append(log, "ack"))

\* input(): the operator has connected the fiber
FL_Ack ==
    /\ pc = "fl_ack"
    /\ Moves("fl_wait", Append(log, "ack"))

FL_TrackPhase(locked) ==
    /\ pc = "fl_wait"
    /\ TrackPhase("fl_wait", "fl_rtt", locked)

\* one turn of "for i in range(n_samples): mean_rtt += slave.get_rtt()",
\* the first one after "mean_rtt = 0"
GetRtt(at, to, rtt) ==
    /\ pc = at
    /\ loc' = [loc EXCEPT !.mean_rtt = (IF loc.k = 0 THEN 0 ELSE @) + rtt, !.k = @ + 1]
    /\ pc' = IF loc.k + 1 = call.n_samples THEN to ELSE at
    /\ log' = Append(log, "slave.get_rtt")
    /\ hist' = [hist EXCEPT !.rtts = IF loc.k = 0 THEN Append(@, <<rtt>>)
                                     ELSE [@ EXCEPT ![Len(@)] = Append(@, rtt)]]
    /\ UNCHANGED <<cfg_dict, session_vars, disk, call, err, left>>

FL_GetRtt(rtt) ==
    /\ pc = "fl_rtt"
    /\ GetRtt("fl_rtt", "fl_phy", rtt)

\* a variant with the two differences exchanged, to test the formula of C12
FiberLatencyResult_Exchanged(rtt_dict, delays_dict) ==
    LET mm(f) == RSub(RSub(rtt_dict[f], Rat(delays_dict[f].master[2])),
                      Rat(delays_dict[f].slave[2]))
    IN  [delta1 |-> RSub(mm("f1+f2"), mm("f1")), delta2 |-> RSub(mm("f1+f2"), mm("f2"))]

\* delta1 and delta2 from the three configurations
FiberLatencyResult(rtt_dict, delays_dict) ==
    LET mm(f) == RSub(RSub(rtt_dict[f], Rat(delays_dict[f].master[2])),
                      Rat(delays_dict[f].slave[2]))
        delay_mm1 == mm("f1")
        delay_mm2 == mm("f2")
        delay_mm3 == mm("f1+f2")
    IN  [delta1 |-> RSub(delay_mm3, delay_mm2), delta2 |-> RSub(delay_mm3, delay_mm1)]

\* mean_rtt /= n_samples, get_phy_delays(), and after the third
\* configuration the result
FL_GetPhyDelays(d) ==
    /\ pc = "fl_phy"
    /\ LET fiber == fibers[loc.fiber]
           mean  == Norm(loc.mean_rtt, call.n_samples)
           rtts  == Put(loc.rtt_dict, fiber, mean)
           dels  == Put(loc.delays_dict, fiber, d)
       IN  /\ loc' = [loc EXCEPT !.rtt_dict = rtts, !.delays_dict = dels,
                                 !.mean_rtt = mean, !.k = 0,
                                 !.fiber = IF @ < Len(fibers) THEN @ + 1 ELSE @]
           /\ IF loc.fiber < Len(fibers)
              THEN pc' = "fl_ack" /\ UNCHANGED cfg_dict
              ELSE /\ pc' = "idle"
                   /\ cfg_dict' = [cfg_dict EXCEPT ![LAT] = FiberLatencyResult(rtts, dels)]
    /\ log' = Append(log, "slave.get_phy_delays")
    /\ hist' = [hist EXCEPT !.phys = Append(@, d)]
    /\ UNCHANGED <<session_vars, disk, call, err, left>>

(***************************************************************************)
(* fiber_asymmetry                                                         *)
(***************************************************************************)
\* a variant that looks at the latency first, to test the formula of C10
FiberAsymmetryCheck_LatencyFirst(ndev, has_instr, cfg) ==
    IF cfg[LAT].delta1 = Rat(0) THEN "FiberLatencyNeeded"
    ELSE IF ndev < 2 THEN "WRDeviceNeeded"
    ELSE IF ~has_instr THEN "MeasurementInstrumentNeeded"
    ELSE NoError

FiberAsymmetryCheck(ndev, has_instr, cfg) ==
    IF ndev < 2 THEN "WRDeviceNeeded"
    ELSE IF ~has_instr THEN "MeasurementInstrumentNeeded"
    ELSE IF cfg[LAT].delta1 = Rat(0) THEN "FiberLatencyNeeded"
    ELSE NoError

FA_Call(s, n, port, sfp) ==
    /\ live[s]
    /\ Starts(Call("fiber_asymmetry", s, sfp, port, n, 0),
           FiberAsymmetryCheck(Devices(s), instr[s], cfg_dict),
           "fa_ack1",
           [fiber |-> 1, skew |-> <<>>],
           SetupPair)

\* input(): the fiber is connected
FA_AckFiber ==
    /\ pc = "fa_ack1"
    /\ Moves("fa_ack2", Append(log, "ack"))

\* input(): the PPS outputs are connected to the instrument
FA_AckInstrument ==
    /\ pc = "fa_ack2"
    /\ Moves("fa_wait", Append(log, "ack"))

FA_TrackPhase(locked) ==
    /\ pc = "fa_wait"
    /\ TrackPhase("fa_wait", "fa_meas", locked)

\* the sign the reading gets: "if sfp == 'blue': mean_skew *= -1"
SignedSkew(sfp, reading) == IF sfp = "blue" THEN -reading ELSE reading
\* "if mean_skew >= 1e-6: raise MeasuringError"
SkewRejected(mean_skew) == mean_skew >= SkewLimit

\* alpha and alpha_n from the two skews, stored under the key; the divisions
\* raise ZeroDivisionError on a zero divisor
FiberAsymmetryResult(cfg, skew, sfp, port) ==
    LET skew0   == Rat(skew[1] * TickToUnit)
        skew1   == Rat(skew[2] * TickToUnit)
        dif     == RSub(skew1, skew0)
        delta_2 == cfg[LAT].delta2
        den     == RSub(RMul(Half, delta_2), dif)
        alpha   == RDiv(RMul(Rat(2), dif), den)
        q       == RSub(RDiv(RAdd(alpha, Rat(1)), RAdd(alpha, Rat(2))), Half)
        alpha_n == IF sfp = "violet" THEN WNeg(Pow2_40Times(q)) ELSE Pow2_40Times(q)
    IN  IF den = Rat(0) THEN [cfg |-> cfg, err |-> "ZeroDivisionError"]
        ELSE IF RAdd(alpha, Rat(2)) = Rat(0) THEN [cfg |-> cfg, err |-> "ZeroDivisionError"]
        ELSE [cfg |-> [cfg EXCEPT ![ASYM] = Put(@, KeyOf(sfp, port), alpha_n)],
              err |-> NoError]

\* a variant of FA_Measure that creates the entry of the key at the first
\* accepted reading, to test the formula of C9
FA_Measure_EntryFirst(reading) ==
    /\ pc = "fa_meas"
    /\ LET mean_skew == SignedSkew(call.sfp, reading)
           skews     == Append(loc.skew, mean_skew)
           key       == KeyOf(call.sfp, call.port)
           res       == FiberAsymmetryResult(cfg_dict, skews, call.sfp, call.port)
       IN  IF SkewRejected(mean_skew)
           THEN /\ pc' = "idle" /\ err' = "MeasuringError"
                /\ UNCHANGED <<cfg_dict, loc>>
           ELSE IF loc.fiber = 1
           THEN /\ pc' = "fa_ack1"
                /\ loc' = [loc EXCEPT !.fiber = 2, !.skew = skews]
                /\ cfg_dict' = [cfg_dict EXCEPT ![ASYM] = Put(@, key, Wide(FALSE, 0, 0, 0, 0, 1))]
                /\ UNCHANGED err
           ELSE /\ pc' = "idle"
                /\ loc' = [loc EXCEPT !.skew = skews]
                /\ cfg_dict' = res.cfg
                /\ err' = res.err
    /\ log' = Append(log, "instr.mean_time_interval")
    /\ hist' = [hist EXCEPT !.readings = Append(@, reading)]
    /\ UNCHANGED <<session_vars, disk, call, left>>

\* mean_time_interval(), the check of the reading, and after the second
\* accepted reading the result
FA_Measure(reading) ==
    /\ pc = "fa_meas"
    /\ LET mean_skew == SignedSkew(call.sfp, reading)
           skews     == Append(loc.skew, mean_skew)
           res       == FiberAsymmetryResult(cfg_dict, skews, call.sfp, call.port)
       IN  IF SkewRejected(mean_skew)
           THEN /\ pc' = "idle" /\ err' = "MeasuringError"
                /\ UNCHANGED <<cfg_dict, loc>>
           ELSE IF loc.fiber = 1
           THEN /\ pc' = "fa_ack1"
                /\ loc' = [loc EXCEPT !.fiber = 2, !.skew = skews]
                /\ UNCHANGED <<cfg_dict, err>>
           ELSE /\ pc' = "idle"
                /\ loc' = [loc EXCEPT !.skew = skews]
                /\ cfg_dict' = res.cfg
                /\ err' = res.err
    /\ log' = Append(log, "instr.mean_time_interval")
    /\ hist' = [hist EXCEPT !.readings = Append(@, reading)]
    /\ UNCHANGED <<session_vars, disk, call, left>>

(***************************************************************************)
(* calibrate_device_port                                                   *)
(***************************************************************************)
\* a variant without the test of delta1, to test the formula of C1
CalibrateCheck_NoLatency(ndev, has_instr, cfg, key) ==
    IF ndev < 1 THEN "WRDeviceNeeded"
    ELSE IF ~has_instr THEN "MeasurementInstrumentNeeded"
    ELSE IF key \notin DOMAIN cfg[ASYM] THEN "FiberLatencyNeeded"
    ELSE NoError

CalibrateCheck(ndev, has_instr, cfg, key) ==
    IF ndev < 1 THEN "WRDeviceNeeded"
    ELSE IF ~has_instr THEN "MeasurementInstrumentNeeded"
    ELSE IF cfg[LAT].delta1 = Rat(0) THEN "FiberLatencyNeeded"
    ELSE IF key \notin DOMAIN cfg[ASYM] THEN "FiberLatencyNeeded"
    ELSE NoError

\* slave.write_sfp_config(sfp_sn, port, dtx, drx, beta) after the writes w:
\* how many there were, the delays of the last, and every beta they carried
SfpWrite(w, dtx, drx, beta) ==
    [n |-> w.n + 1, dtx |-> dtx, drx |-> drx, betas |-> w.betas \cup {beta}]
NoWrites == [n |-> 0, dtx |-> Rat(0), drx |-> Rat(0), betas |-> {}]

\* the checks, then the first commands; "beta = cfg_dict['fiber-asymmetry'][key]"
\* comes after the first erase and raises KeyError for a key that is absent
CP_Call(s, error, n, port, sfp) ==
    /\ live[s]
    /\ LET key   == KeyOf(sfp, port)
           check == CalibrateCheck(Devices(s), instr[s], cfg_dict, key)
       IN  IF check = NoError /\ key \notin DOMAIN cfg_dict[ASYM]
           THEN /\ pc = "idle" /\ left.runs > 0
                /\ call' = Call("calibrate_device_port", s, sfp, port, n, error)
                /\ err' = "KeyError"
                /\ hist' = NoHist
                /\ left' = [left EXCEPT !.runs = @ - 1]
                /\ pc' = "idle" /\ loc' = NoLoc
                /\ log' = <<"slave.erase_sfp_config">>
                /\ UNCHANGED <<cfg_dict, session_vars, disk>>
           ELSE Starts(Call("calibrate_device_port", s, sfp, port, n, error),
                    check,
                    "cp_ack",
                    [mean_rtt |-> 0, k |-> 0, key |-> key, i |-> 0,
                     mean_skew |-> 0, bound |-> FALSE, dtxs |-> Rat(0), drxs |-> Rat(0),
                     old_dtxs |-> Rat(0), old_drxs |-> Rat(0), coarse_delays |-> Rat(0),
                     beta |-> cfg_dict[ASYM][key],
                     writes |-> SfpWrite(NoWrites, Rat(0), Rat(0), cfg_dict[ASYM][key])],
                    SetupOne)

\* input(): the calibrator is connected to the device
CP_Ack ==
    /\ pc = "cp_ack"
    /\ Moves("cp_wait", Append(log, "ack"))

CP_TrackPhase(locked) ==
    /\ pc = "cp_wait"
    /\ TrackPhase("cp_wait", "cp_rtt", locked)

CP_GetRtt(rtt) ==
    /\ pc = "cp_rtt"
    /\ GetRtt("cp_rtt", "cp_phy", rtt)

\* 0.5 * ( mean_rtt - dtxm - drxm - bitslide - delta1 )
CoarseDelays(mean_rtt, delays_dict, delta1) ==
    LET dtxm     == Rat(delays_dict.master[1])
        drxm     == Rat(delays_dict.master[2])
        bitslide == Rat(delays_dict.slave[2])
    IN  RMul(Half, RSub(RSub(RSub(RSub(mean_rtt, dtxm), drxm), bitslide), delta1))

\* a variant that only counts the turns, to test the formula of C4
LoopCond_CountOnly(mean_skew, error, i) == i < Times

\* "while abs(mean_skew) > error and i < times"
LoopCond(mean_skew, error, i) == Abs(mean_skew) > error /\ i < Times

\* a variant that stores a block with the one new entry, to test the formula
\* of C19
CalibrateStore_NewBlock(cfg, l) ==
    IF l.bound
    THEN [cfg |-> [cfg EXCEPT ![DELAY] = (l.key :> <<l.dtxs, l.drxs>>)],
          err |-> NoError]
    ELSE [cfg |-> cfg, err |-> "UnboundLocalError"]

\* a variant that files the pair under the port alone, to test the formula
\* of C20
CalibrateStore_PortKey(cfg, l) ==
    IF l.bound
    THEN [cfg |-> [cfg EXCEPT ![DELAY] = Put(@, "wr" \o ToString(call.port),
                                            <<l.dtxs, l.drxs>>)],
          err |-> NoError]
    ELSE [cfg |-> cfg, err |-> "UnboundLocalError"]

\* a variant that stores the pair the other way round, to test the formula
\* of C24
CalibrateStore_Swapped(cfg, l) ==
    IF l.bound
    THEN [cfg |-> [cfg EXCEPT ![DELAY] = Put(@, l.key, <<l.drxs, l.dtxs>>)],
          err |-> NoError]
    ELSE [cfg |-> cfg, err |-> "UnboundLocalError"]

\* self.cfg_dict['port-delay'][key] = (dtxs,drxs); dtxs and drxs are bound
\* by the first turn of the loop only
CalibrateStore(cfg, l) ==
    IF l.bound
    THEN [cfg |-> [cfg EXCEPT ![DELAY] = Put(@, l.key, <<l.dtxs, l.drxs>>)],
          err |-> NoError]
    ELSE [cfg |-> cfg, err |-> "UnboundLocalError"]

\* a variant whose next turn measures without waiting for the track phase,
\* to test the formula of C17
LoopOrStore_NoWait(l) ==
    IF LoopCond(l.mean_skew, call.error, l.i)
    THEN /\ pc' = "cp_loop_meas"
         /\ UNCHANGED <<cfg_dict, err>>
    ELSE /\ pc' = "idle"
         /\ cfg_dict' = CalibrateStore(cfg_dict, l).cfg
         /\ err' = CalibrateStore(cfg_dict, l).err

\* the test of the loop on the locals l: another turn, or the end of the call
LoopOrStore(l) ==
    IF LoopCond(l.mean_skew, call.error, l.i)
    THEN /\ pc' = "cp_loop_wait"
         /\ UNCHANGED <<cfg_dict, err>>
    ELSE /\ pc' = "idle"
         /\ cfg_dict' = CalibrateStore(cfg_dict, l).cfg
         /\ err' = CalibrateStore(cfg_dict, l).err

\* mean_rtt /= n_samples, get_phy_delays(), the coarse delays written to the
\* device, the locals of the loop and its first test
CP_Coarse(d) ==
    /\ pc = "cp_phy"
    /\ LET mean   == Norm(loc.mean_rtt, call.n_samples)
           coarse == CoarseDelays(mean, d, cfg_dict[LAT].delta1)
           l      == [loc EXCEPT !.mean_rtt = mean, !.coarse_delays = coarse,
                                 !.i = 0, !.mean_skew = InitialSkew,
                                 !.old_dtxs = coarse, !.old_drxs = coarse,
                                 !.writes = SfpWrite(@, coarse, coarse, loc.beta)]
       IN  loc' = l /\ LoopOrStore(l)
    /\ log' = Append(log, "slave.get_phy_delays") \o Rewrite
    /\ hist' = [hist EXCEPT !.phys = Append(@, d)]
    /\ UNCHANGED <<session_vars, disk, call, left>>

CP_LoopTrackPhase(locked) ==
    /\ pc = "cp_loop_wait"
    /\ TrackPhase("cp_loop_wait", "cp_loop_meas", locked)

\* a variant whose every turn corrects the coarse delays, to test the
\* formula of C23
CP_Measure_FromCoarse(reading) ==
    /\ pc = "cp_loop_meas"
    /\ LET mean_skew == reading * TickToUnit
           dtxs      == RSub(loc.coarse_delays, Rat(mean_skew))
           drxs      == RAdd(loc.coarse_delays, Rat(mean_skew))
           l         == [loc EXCEPT !.mean_skew = mean_skew, !.bound = TRUE,
                                    !.dtxs = dtxs, !.drxs = drxs,
                                    !.old_dtxs = dtxs, !.old_drxs = drxs,
                                    !.i = @ + 1,
                                    !.writes = SfpWrite(@, dtxs, drxs, loc.beta)]
       IN  /\ loc' = l /\ LoopOrStore(l)
           /\ hist' = [hist EXCEPT !.sum = @ + mean_skew, !.n = @ + 1,
                          !.conv = IF @ = 0 /\ Abs(mean_skew) <= call.error
                                   THEN hist.n + 1 ELSE @]
    /\ log' = Append(log, "instr.mean_time_interval") \o Rewrite
    /\ UNCHANGED <<session_vars, disk, call, left>>

\* the rest of one turn of the loop: the skew in ps, the new delays written
\* to the device, and the next test
CP_Measure(reading) ==
    /\ pc = "cp_loop_meas"
    /\ LET mean_skew == reading * TickToUnit
           dtxs      == RSub(loc.old_dtxs, Rat(mean_skew))
           drxs      == RAdd(loc.old_drxs, Rat(mean_skew))
           l         == [loc EXCEPT !.mean_skew = mean_skew, !.bound = TRUE,
                                    !.dtxs = dtxs, !.drxs = drxs,
                                    !.old_dtxs = dtxs, !.old_drxs = drxs,
                                    !.i = @ + 1,
                                    !.writes = SfpWrite(@, dtxs, drxs, loc.beta)]
       IN  /\ loc' = l /\ LoopOrStore(l)
           /\ hist' = [hist EXCEPT !.sum = @ + mean_skew, !.n = @ + 1,
                          !.conv = IF @ = 0 /\ Abs(mean_skew) <= call.error
                                   THEN hist.n + 1 ELSE @]
    /\ log' = Append(log, "instr.mean_time_interval") \o Rewrite
    /\ UNCHANGED <<session_vars, disk, call, left>>

(***************************************************************************)
(* The program                                                             *)
(***************************************************************************)
Next ==
    \/ \E s \in Sessions : Construct(s)
    \/ \E s \in Sessions, known \in BOOLEAN : AddWrDevice(s, known)
    \/ \E s \in Sessions : RemoveWrDevices(s)
    \/ \E s \in Sessions, known \in BOOLEAN : AddMeasInstr(s, known)
    \/ \E s \in Sessions : ReadConfig(s)
    \/ \E s \in Sessions : ReadBack(s)
    \/ \E s \in Sessions : WriteConfig(s)
    \/ \E s \in Sessions, n \in NSamples : FL_Call(s, n)
    \/ FL_Ack
    \/ \E locked \in BOOLEAN : FL_TrackPhase(locked)
    \/ \E rtt \in RttValues : FL_GetRtt(rtt)
    \/ \E d \in PhyDelays : FL_GetPhyDelays(d)
    \/ \E s \in Sessions, n \in NSamples, port \in Ports, sfp \in Sfps : FA_Call(s, n, port, sfp)
    \/ FA_AckFiber
    \/ FA_AckInstrument
    \/ \E locked \in BOOLEAN : FA_TrackPhase(locked)
    \/ \E reading \in Readings : FA_Measure(reading)
    \/ \E s \in Sessions, error \in Errors, n \in NSamples, port \in Ports, sfp \in Sfps :
          CP_Call(s, error, n, port, sfp)
    \/ CP_Ack
    \/ \E locked \in BOOLEAN : CP_TrackPhase(locked)
    \/ \E rtt \in RttValues : CP_GetRtt(rtt)
    \/ \E d \in PhyDelays : CP_Coarse(d)
    \/ \E locked \in BOOLEAN : CP_LoopTrackPhase(locked)
    \/ \E reading \in SkewReadings : CP_Measure(reading)

Spec == Init /\ [][Next]_vars

\* the record files alone: sessions are constructed, files read and written
NextFile ==
    \/ \E s \in Sessions : Construct(s)
    \/ \E s \in Sessions : ReadConfig(s)
    \/ \E s \in Sessions : ReadBack(s)
    \/ \E s \in Sessions : WriteConfig(s)

SpecFile == Init /\ [][NextFile]_vars

\* the sessions alone: constructed, given devices and instruments, loaded
\* from one of two files
SessionFiles == {FileFull, FileLatency}
NextSession ==
    \/ \E s \in Sessions : Construct(s)
    \/ \E s \in Sessions, known \in BOOLEAN : AddWrDevice(s, known)
    \/ \E s \in Sessions : RemoveWrDevices(s)
    \/ \E s \in Sessions, known \in BOOLEAN : AddMeasInstr(s, known)
    \/ \E s \in Sessions, f \in SessionFiles : ReadConfigFrom(s, f)

SpecSession == Init /\ [][NextSession]_vars

\* one estimator run of a session prepared by add_wr_device, add_meas_instr
\* and read_config of one file
InitRun ==
    \E nd \in 0..MaxDevices, hi \in BOOLEAN, f \in Files :
        /\ cfg_dict = ReadConfigOn(EmptyCfg, f).cfg
        /\ class_devices = nd
        /\ has_own = [s \in Sessions |-> FALSE]
        /\ own_devices = [s \in Sessions |-> 0]
        /\ instr = [s \in Sessions |-> s = 1 /\ hi]
        /\ live = [s \in Sessions |-> s = 1]
        /\ disk = NoDisk
        /\ pc = "idle"
        /\ call = [op |-> "read_config", s |-> 1, sfp |-> "", port |-> 0,
                   n_samples |-> 0, error |-> 0, file |-> f, ndev |-> nd,
                   instr |-> hi, pre |-> EmptyCfg]
        /\ loc = NoLoc
        /\ err = ReadConfigOn(EmptyCfg, f).err
        /\ log = <<>>
        /\ hist = NoHist
        /\ left = [runs |-> 1, files |-> MaxFileOps - 1]

NextRun ==
    \/ \E n \in NSamples : FL_Call(1, n)
    \/ FL_Ack
    \/ \E locked \in BOOLEAN : FL_TrackPhase(locked)
    \/ \E rtt \in RttValues : FL_GetRtt(rtt)
    \/ \E d \in PhyDelays : FL_GetPhyDelays(d)
    \/ \E n \in NSamples, port \in Ports, sfp \in Sfps : FA_Call(1, n, port, sfp)
    \/ FA_AckFiber
    \/ FA_AckInstrument
    \/ \E locked \in BOOLEAN : FA_TrackPhase(locked)
    \/ \E reading \in Readings : FA_Measure(reading)
    \/ \E error \in Errors, n \in NSamples, port \in Ports, sfp \in Sfps :
          CP_Call(1, error, n, port, sfp)
    \/ CP_Ack
    \/ \E locked \in BOOLEAN : CP_TrackPhase(locked)
    \/ \E rtt \in RttValues : CP_GetRtt(rtt)
    \/ \E d \in PhyDelays : CP_Coarse(d)
    \/ \E locked \in BOOLEAN : CP_LoopTrackPhase(locked)
    \/ \E reading \in SkewReadings : CP_Measure(reading)

SpecRun == InitRun /\ [][NextRun]_vars

\* one call of calibrate_device_port whose operator acknowledges, whose
\* device answers every command and is eventually seen locked in every wait
NextCalibrate ==
    \/ \E error \in Errors, n \in NSamples, port \in Ports, sfp \in Sfps :
          CP_Call(1, error, n, port, sfp)
    \/ CP_Ack
    \/ \E locked \in BOOLEAN : CP_TrackPhase(locked)
    \/ \E rtt \in RttValues : CP_GetRtt(rtt)
    \/ \E d \in PhyDelays : CP_Coarse(d)
    \/ \E locked \in BOOLEAN : CP_LoopTrackPhase(locked)
    \/ \E reading \in SkewReadings : CP_Measure(reading)

Responsive ==
    /\ WF_vars(CP_Ack)
    /\ WF_vars(CP_TrackPhase(TRUE))
    /\ WF_vars(\E rtt \in RttValues : CP_GetRtt(rtt))
    /\ WF_vars(\E d \in PhyDelays : CP_Coarse(d))
    /\ WF_vars(CP_LoopTrackPhase(TRUE))
    /\ WF_vars(\E reading \in SkewReadings : CP_Measure(reading))

SpecCalibrate == InitRun /\ [][NextCalibrate]_vars /\ Responsive

\* estimator runs in a row from the empty record: a session with two
\* devices and an instrument, one sample per measurement, and readings that
\* make runs succeed and fail
SeqReadings == {1, 11, 10000}
SeqSkewReadings == {0, 1}
SeqErrors == {10, InitialSkew}
InitSeq ==
    /\ cfg_dict = EmptyCfg
    /\ class_devices = MaxDevices
    /\ has_own = [s \in Sessions |-> FALSE]
    /\ own_devices = [s \in Sessions |-> 0]
    /\ instr = [s \in Sessions |-> s = 1]
    /\ live = [s \in Sessions |-> s = 1]
    /\ disk = NoDisk
    /\ pc = "idle"
    /\ call = [op |-> "__init__", s |-> 1, sfp |-> "", port |-> 0, n_samples |-> 0,
               error |-> 0, file |-> <<>>, ndev |-> 0, instr |-> FALSE,
               pre |-> EmptyCfg]
    /\ loc = NoLoc
    /\ err = NoError
    /\ log = <<>>
    /\ hist = NoHist
    /\ left = [runs |-> MaxSeqRuns, files |-> 0]

NextSeq ==
    \/ FL_Call(1, 1)
    \/ FL_Ack
    \/ FL_TrackPhase(TRUE)
    \/ \E rtt \in RttValues : FL_GetRtt(rtt)
    \/ \E d \in PhyDelays : FL_GetPhyDelays(d)
    \/ \E port \in Ports, sfp \in Sfps : FA_Call(1, 1, port, sfp)
    \/ FA_AckFiber
    \/ FA_AckInstrument
    \/ FA_TrackPhase(TRUE)
    \/ \E reading \in SeqReadings : FA_Measure(reading)
    \/ \E error \in SeqErrors, port \in Ports, sfp \in Sfps : CP_Call(1, error, 1, port, sfp)
    \/ CP_Ack
    \/ CP_TrackPhase(TRUE)
    \/ \E rtt \in RttValues : CP_GetRtt(rtt)
    \/ \E d \in PhyDelays : CP_Coarse(d)
    \/ CP_LoopTrackPhase(TRUE)
    \/ \E reading \in SeqSkewReadings : CP_Measure(reading)

SpecSeq == InitSeq /\ [][NextSeq]_vars

(***************************************************************************)
(* Properties                                                              *)
(***************************************************************************)
FA == "fiber_asymmetry"
CP == "calibrate_device_port"
Estimators == {"fiber_latency", FA, CP}
\* the device handles an estimator asks for, and whether it asks for an instrument
RequiredDevices(op) == IF op = CP THEN 1 ELSE 2
NeedsInstrument(op) == op \in {FA, CP}

\* the call has failed with e, has issued no command and has left the record alone
FailedAtOnce(e) ==
    /\ pc = "idle"
    /\ err = e
    /\ log = <<>>
    /\ cfg_dict = call.pre

RECURSIVE Count(_, _)
Count(l, cmd) ==
    IF l = <<>> THEN 0 ELSE (IF l[1] = cmd THEN 1 ELSE 0) + Count(Tail(l), cmd)

\* C1 (as amended): a call of fiber_asymmetry or calibrate_device_port made
\* while delta1 == 0 fails at once, with no command issued and the record
\* unchanged; when the devices and the instrument the estimator needs are
\* registered, the error is FiberLatencyNeeded.
C1_LatencyNeeded ==
    (call.op \in {FA, CP} /\ call.pre[LAT].delta1 = Rat(0)) =>
        /\ \E e \in {"WRDeviceNeeded", "MeasurementInstrumentNeeded", "FiberLatencyNeeded"} :
              FailedAtOnce(e)
        /\ (call.ndev >= RequiredDevices(call.op) /\ call.instr)
              => err = "FiberLatencyNeeded"

\* C1, a case: calibrate_device_port with a device, an instrument and the
\* asymmetry of the key, but delta1 == 0
C1_Witness ==
    /\ call.op = CP /\ call.pre[LAT].delta1 = Rat(0)
    /\ call.ndev >= 1 /\ call.instr
    /\ KeyOf(call.sfp, call.port) \in DOMAIN call.pre[ASYM]
    /\ FailedAtOnce("FiberLatencyNeeded")

\* C1 as stated: whenever delta1 == 0 the call fails with FiberLatencyNeeded
C1_AlwaysLatencyNeeded ==
    (call.op \in {FA, CP} /\ call.pre[LAT].delta1 = Rat(0)) =>
        FailedAtOnce("FiberLatencyNeeded")

\* C2 as stated: calibrate_device_port with a device, an instrument and
\* delta1 # 0 but no asymmetry under the key fails with FiberAsymmetryNeeded
\* before any command
C2_AsymmetryNeeded ==
    ( /\ call.op = CP /\ call.ndev >= 1 /\ call.instr
      /\ call.pre[LAT].delta1 # Rat(0)
      /\ KeyOf(call.sfp, call.port) \notin DOMAIN call.pre[ASYM] ) =>
        FailedAtOnce("FiberAsymmetryNeeded")

\* C3 as stated: in fiber_asymmetry a reading of magnitude 1e-6 s or more is
\* the last one taken: the call ends with MeasuringError and stores nothing
C3_MagnitudeRejected ==
    call.op = FA =>
        \A k \in DOMAIN hist.readings :
            Abs(hist.readings[k]) >= SkewLimit =>
                /\ k = Len(hist.readings)
                /\ pc = "idle"
                /\ err = "MeasuringError"
                /\ cfg_dict = call.pre

\* C4: when the k-th skew of the refinement is the first within the error,
\* the loop has made exactly k turns (k measurements, k rewrites after the
\* coarse one), the call has ended without error, and the pair stored is
\* (coarse - sum of the k skews, coarse + sum of the k skews).
C4_StopsAtConvergence ==
    (call.op = CP /\ hist.conv >= 1) =>
        /\ hist.n = hist.conv
        /\ pc = "idle" /\ err = NoError
        /\ Count(log, "instr.mean_time_interval") = hist.conv
        /\ Count(log, "slave.write_sfp_config") = hist.conv + 2
        /\ loc.key \in DOMAIN cfg_dict[DELAY]
        /\ cfg_dict[DELAY][loc.key] =
              <<RSub(loc.coarse_delays, Rat(hist.sum)), RAdd(loc.coarse_delays, Rat(hist.sum))>>

\* C4, a case: the third skew is the first within the error
C4_Witness ==
    /\ call.op = CP /\ pc = "idle" /\ err = NoError
    /\ hist.conv = 3 /\ hist.n = 3 /\ hist.sum # 0

\* C5 as stated: a run of calibrate_device_port none of whose skews is within
\* the error makes exactly 10 turns, raises nothing and stores the pair of
\* the tenth turn
C5_CapStoresLast ==
    (call.op = CP /\ pc = "idle" /\ log # <<>> /\ hist.conv = 0) =>
        /\ hist.n = Times
        /\ err = NoError
        /\ loc.key \in DOMAIN cfg_dict[DELAY]
        /\ cfg_dict[DELAY][loc.key] = <<loc.dtxs, loc.drxs>>

\* C6 as stated: after read_config has completed on a file, the record is
\* what the file says (what loading it into an empty record gives)
C6_FullReplacement ==
    (call.op = "read_config" /\ err = NoError) =>
        cfg_dict = ReadConfigOn(EmptyCfg, call.file).cfg

\* C7 as stated, whatever the kind of the error: a read_config that failed
\* has left the record as it was
C7_NoPartialCommit ==
    (call.op = "read_config" /\ err # NoError) => cfg_dict = call.pre

\* y is x rounded to one decimal; y is x cut to an integer (toward zero)
Rounded1(x, y) ==
    /\ Norm(y[1] * 10, y[2])[2] = 1
    /\ RLe(RAbs(RSub(x, y)), <<1, 20>>)
Truncated(x, y) ==
    /\ y[2] = 1
    /\ RLe(RAbs(y), RAbs(x))
    /\ RLt(RAbs(RSub(x, y)), Rat(1))
WideTruncated(w, v) ==
    /\ v.top = w.top /\ v.hi = w.hi /\ v.lo = w.lo
    /\ v.fn = 0 /\ v.fd = 1
    /\ v.neg = (w.neg /\ (w.top # 0 \/ w.hi # 0 \/ w.lo # 0))

\* C8: read_config of the file write_config wrote, into an empty record,
\* succeeds and gives delta1 and delta2 rounded to one decimal, and the
\* asymmetries and port delays under the same keys, each cut to an integer.
C8_RoundTrip ==
    ( /\ call.op = "read_config" /\ disk.exists
      /\ call.file = disk.lines /\ call.pre = EmptyCfg ) =>
        /\ err = NoError
        /\ Rounded1(disk.of[LAT].delta1, cfg_dict[LAT].delta1)
        /\ Rounded1(disk.of[LAT].delta2, cfg_dict[LAT].delta2)
        /\ DOMAIN cfg_dict[ASYM] = DOMAIN disk.of[ASYM]
        /\ \A k \in DOMAIN disk.of[ASYM] :
              WideTruncated(disk.of[ASYM][k], cfg_dict[ASYM][k])
        /\ DOMAIN cfg_dict[DELAY] = DOMAIN disk.of[DELAY]
        /\ \A k \in DOMAIN disk.of[DELAY] :
              /\ Truncated(disk.of[DELAY][k][1], cfg_dict[DELAY][k][1])
              /\ Truncated(disk.of[DELAY][k][2], cfg_dict[DELAY][k][2])

\* C8, a case: a record with fractions in all three blocks has gone round
C8_Witness ==
    /\ call.op = "read_config" /\ disk.exists
    /\ call.file = disk.lines /\ call.pre = EmptyCfg
    /\ disk.of[LAT].delta1 = <<1, 4>>
    /\ \E k \in DOMAIN disk.of[DELAY] : disk.of[DELAY][k][1] = <<-11, 2>>
    /\ \E k \in DOMAIN disk.of[ASYM] : disk.of[ASYM][k].fn # 0
    /\ cfg_dict # disk.of

\* C9: fiber_asymmetry leaves the whole record as it was before the call
\* while it is running and when it ends with MeasuringError, on the first
\* reading or on the second.
C9_NoEarlyWrite ==
    (call.op = FA /\ (pc # "idle" \/ err = "MeasuringError")) => cfg_dict = call.pre

\* C9, a case: the second reading was rejected
C9_Witness ==
    /\ call.op = FA /\ pc = "idle" /\ err = "MeasuringError"
    /\ Len(hist.readings) = 2
    /\ cfg_dict = call.pre

\* C10: an estimator called with fewer devices than it needs fails with
\* WRDeviceNeeded, and one called with enough devices but without the
\* instrument it needs fails with MeasurementInstrumentNeeded; either way
\* it has issued no command and left the record unchanged.
C10_Preconditions ==
    call.op \in Estimators =>
        /\ call.ndev < RequiredDevices(call.op) => FailedAtOnce("WRDeviceNeeded")
        /\ ( /\ call.ndev >= RequiredDevices(call.op)
             /\ NeedsInstrument(call.op) /\ ~call.instr )
              => FailedAtOnce("MeasurementInstrumentNeeded")

\* C10, a case: fiber_asymmetry with two devices, no instrument and no latency
C10_Witness ==
    /\ call.op = FA /\ call.ndev = 2 /\ ~call.instr
    /\ call.pre[LAT].delta1 = Rat(0)
    /\ FailedAtOnce("MeasurementInstrumentNeeded")

\* C11 as stated: constructing a second session, or loading a file into it,
\* leaves the record of the first session as it was, and the session just
\* constructed has an empty record and no devices
C11_PerInstance ==
    (call.s = 2 /\ live[1] /\ call.op \in {"__init__", "read_config"}) =>
        /\ Record(1) = call.pre
        /\ call.op = "__init__" => (Record(2) = EmptyCfg /\ Devices(2) = 0)

FL == "fiber_latency"
RECURSIVE Sum(_)
Sum(q) == IF q = <<>> THEN 0 ELSE q[1] + Sum(Tail(q))
\* delay_mm of the c-th configuration, from what the devices returned in it
DelayMM(c) ==
    RSub(RSub(Norm(Sum(hist.rtts[c]), Len(hist.rtts[c])), Rat(hist.phys[c].master[2])),
         Rat(hist.phys[c].slave[2]))

\* C12: a fiber_latency run that has completed took n_samples RTT readings
\* in each of the three configurations and stored
\* delta1 = delay_mm(f1+f2) - delay_mm(f2), delta2 = delay_mm(f1+f2) - delay_mm(f1),
\* each delay_mm from the readings and the bit-slides of its own configuration.
C12_Deltas ==
    (call.op = FL /\ pc = "idle" /\ err = NoError) =>
        /\ Len(hist.rtts) = 3 /\ Len(hist.phys) = 3
        /\ \A c \in 1..3 : Len(hist.rtts[c]) = call.n_samples
        /\ cfg_dict[LAT].delta1 = RSub(DelayMM(3), DelayMM(2))
        /\ cfg_dict[LAT].delta2 = RSub(DelayMM(3), DelayMM(1))

\* C12, a case: two samples per configuration, all three configurations
\* with different readings and bit-slides not all the same
C12_Witness ==
    /\ call.op = FL /\ pc = "idle" /\ err = NoError
    /\ call.n_samples = 2
    /\ hist.rtts = << <<1000, 1000>>, <<1000, 1205>>, <<1205, 1205>> >>
    /\ hist.phys[1] # hist.phys[2]
    /\ cfg_dict[LAT].delta1 # cfg_dict[LAT].delta2

\* the value C13 states for the skews s1, s2 (in units) and delta2
AlphaN(s1, s2, delta2, sfp) ==
    LET dif   == RSub(s2, s1)
        alpha == RDiv(RMul(Rat(2), dif), RSub(RMul(Half, delta2), dif))
        v     == Pow2_40Times(RSub(RDiv(RAdd(alpha, Rat(1)), RAdd(alpha, Rat(2))), Half))
    IN  IF sfp = "blue" THEN v ELSE WNeg(v)

\* C13 as stated: a fiber_asymmetry run whose two skews were accepted has
\* stored, under the key, 2^40 * ((alpha+1)/(alpha+2) - 0.5) for blue and
\* its negation for violet
C13_AlphaN ==
    (call.op = FA /\ pc = "idle" /\ Len(hist.readings) = 2 /\ err # "MeasuringError") =>
        /\ err = NoError
        /\ KeyOf(call.sfp, call.port) \in DOMAIN cfg_dict[ASYM]
        /\ cfg_dict[ASYM][KeyOf(call.sfp, call.port)] =
              AlphaN(Rat(SignedSkew(call.sfp, hist.readings[1]) * TickToUnit),
                     Rat(SignedSkew(call.sfp, hist.readings[2]) * TickToUnit),
                     call.pre[LAT].delta2, call.sfp)

\* the lines of a file that are neither blank nor comments
IsData(line) == line # <<NL>> /\ line[1] # "#"
DataLines(file) == SelectSeq(file, IsData)

\* C14 as stated: read_config of a file gives what it gives for the file
\* without its blank and comment lines; in particular it raises nothing when
\* those data lines are well formed
C14_BlankAndComment ==
    (call.op = "read_config" /\ ReadConfigOn(call.pre, DataLines(call.file)).err = NoError) =>
        /\ err = NoError
        /\ cfg_dict = ReadConfigOn(call.pre, DataLines(call.file)).cfg

IsMarker(line) == line[1] = "@"
IsPayload(line) == line[1] # "@" /\ line[1] # "#"
\* read_config's flag and record after the first k lines of the file
FlagAfter(k) == ReadConfigOn(call.pre, SubSeq(call.file, 1, k)).flag
RecordAfter(k) == ReadConfigOn(call.pre, SubSeq(call.file, 1, k)).cfg

\* C15 as stated: in a file read_config has loaded, after the payload line
\* that follows a marker the parser is back in state NONE (flag 0), and a
\* further payload line adds nothing to the record
C15_BackToNone ==
    (call.op = "read_config" /\ err = NoError) =>
        \A k \in 2..Len(call.file) :
            (IsMarker(call.file[k - 1]) /\ IsPayload(call.file[k])) =>
                /\ FlagAfter(k) = 0
                /\ (k < Len(call.file) /\ IsPayload(call.file[k + 1]))
                      => RecordAfter(k + 1) = RecordAfter(k)

IsPrefix(p, q) == Len(p) <= Len(q) /\ p = SubSeq(q, 1, Len(p))
Repeat(x, n) == [i \in 1..n |-> x]
\* the events of one fiber configuration, and of a whole fiber_latency
FLRound(n) ==
    <<"ack", "slave.in_trackphase">> \o Repeat("slave.get_rtt", n)
        \o <<"slave.get_phy_delays">>
FLTrace(n) == SetupPair \o FLRound(n) \o FLRound(n) \o FLRound(n)

\* C16: the events of a fiber_latency run are, after the setup, three times
\* acknowledgment, locked poll, n_samples RTT reads and one physical-delay
\* read; the results are filed under f1, f2, f1+f2 in that order; the record
\* is written only when the third configuration is complete
C16_Order ==
    (call.op = FL /\ err = NoError) =>
        /\ IsPrefix(log, FLTrace(call.n_samples))
        /\ (pc = "idle") <=> (log = FLTrace(call.n_samples))
        /\ log # FLTrace(call.n_samples) => cfg_dict = call.pre
        /\ LET m == Count(log, "slave.get_phy_delays")
           IN  /\ DOMAIN loc.rtt_dict = {fibers[i] : i \in 1..m}
               /\ DOMAIN loc.delays_dict = {fibers[i] : i \in 1..m}
               /\ \A i \in 1..m : loc.rtt_dict[fibers[i]] = Norm(Sum(hist.rtts[i]), call.n_samples)

C16_Witness ==
    /\ call.op = FL /\ err = NoError /\ pc = "idle" /\ call.n_samples = 2
    /\ log = FLTrace(2)
    /\ cfg_dict # call.pre

Measurements == {"slave.get_rtt", "instr.mean_time_interval"}
SlaveRewrite ==
    {"slave.erase_sfp_config", "slave.write_sfp_config", "slave.load_sfp_config"}
\* the j-th command was issued with the slave seen locked since its SFP
\* database was last rewritten
LockedAt(j) ==
    \E i \in 1..(j - 1) :
        /\ log[i] = "slave.in_trackphase"
        /\ \A k \in (i + 1)..(j - 1) : log[k] \notin SlaveRewrite

\* C17: in each estimator every RTT read and every mean_time_interval call
\* comes after a locked in_trackphase poll with no erase, write or load of
\* the slave's SFP database in between
C17_LockedBeforeMeasuring ==
    \A j \in 1..Len(log) : log[j] \in Measurements => LockedAt(j)

\* calibrate_device_port has measured twice in its loop, so once after the
\* rewrite of an earlier turn
C17_Witness ==
    /\ call.op = CP /\ pc = "idle" /\ err = NoError
    /\ Count(log, "instr.mean_time_interval") = 2
    /\ Count(log, "slave.in_trackphase") = 3

\* without a locked poll calibrate_device_port has neither ended nor written,
\* and when it has ended it was seen locked once before the RTT reads and
\* once in every turn of its loop
C18_Blocked ==
    (call.op = CP) =>
        /\ Count(log, "slave.in_trackphase") = 0 =>
              /\ cfg_dict = call.pre
              /\ pc = "idle" => (log = <<>> /\ err \in {"WRDeviceNeeded",
                                   "MeasurementInstrumentNeeded", "FiberLatencyNeeded"})
        /\ (pc = "idle" /\ log # <<>>) =>
              Count(log, "slave.in_trackphase") = 1 + hist.n

\* C18: with the acknowledgment given and every wait for the track phase
\* ended by a locked answer, a call of calibrate_device_port ends whatever
\* the skew readings are, after at most Times turns of its loop, and with
\* the entry stored when the loop was entered; while the slave has not been
\* seen locked the call neither ends nor writes the record
C18_Termination ==
    /\ [](C18_Blocked /\ hist.n <= Times)
    /\ (call.op = CP /\ pc # "idle") ~>
          /\ pc = "idle"
          /\ call.error < InitialSkew =>
                /\ err = NoError
                /\ KeyOf(call.sfp, call.port) \in DOMAIN cfg_dict[DELAY]

\* a call that ended at the cap of its loop
C18_Witness ==
    /\ call.op = CP /\ pc = "idle" /\ err = NoError
    /\ hist.n = Times
    /\ Count(log, "slave.in_trackphase") = 1 + Times

\* block b of the record is as it was at the call, but for the entry of key
SameBut(b, key) ==
    /\ DOMAIN cfg_dict[b] \ {key} = DOMAIN call.pre[b] \ {key}
    /\ \A k \in DOMAIN call.pre[b] \ {key} : cfg_dict[b][k] = call.pre[b][k]

C20_DelayKeysHaveAsymmetry ==
    DOMAIN cfg_dict[DELAY] \subseteq DOMAIN cfg_dict[ASYM]

\* fiber_latency, fiber_asymmetry and calibrate_device_port have run and
\* the port-delay block has an entry
C20_Witness ==
    /\ call.op = CP /\ pc = "idle" /\ err = NoError
    /\ left.runs = 0
    /\ call.pre[DELAY] = <<>>
    /\ DOMAIN cfg_dict[DELAY] = {KeyOf(call.sfp, call.port)}
    /\ KeyOf(call.sfp, call.port) \in DOMAIN cfg_dict[ASYM]

\* C21 as stated: after a fiber_latency run that completed, delta1 is not 0,
\* and the check of fiber_asymmetry and that of calibrate_device_port, made
\* with two devices and an instrument (and the key's asymmetry present), do
\* not answer FiberLatencyNeeded
C21_SentinelFaithful ==
    (call.op = FL /\ pc = "idle" /\ err = NoError) =>
        /\ cfg_dict[LAT].delta1 # Rat(0)
        /\ FiberAsymmetryCheck(2, TRUE, cfg_dict) # "FiberLatencyNeeded"
        /\ \A k \in DOMAIN cfg_dict[ASYM] :
              CalibrateCheck(2, TRUE, cfg_dict, k) # "FiberLatencyNeeded"

\* C22 as stated: whatever the error threshold, a calibrate_device_port run
\* that passed its checks and has ended measured the skew at least once and
\* ended without an exception, with a pair stored under "<sfp>-wr<port>"
C22_AlwaysStores ==
    (call.op = CP /\ pc = "idle" /\ log # <<>>) =>
        /\ hist.n >= 1
        /\ err = NoError
        /\ KeyOf(call.sfp, call.port) \in DOMAIN cfg_dict[DELAY]
        /\ cfg_dict[DELAY][KeyOf(call.sfp, call.port)] = <<loc.dtxs, loc.drxs>>

\* C23: after every turn of the loop of calibrate_device_port, with S the
\* sum of the skews measured so far, dtxs = coarse - S, drxs = coarse + S
\* and so dtxs + drxs = 2 * coarse; the next turn starts from these values
C23_Antisymmetric ==
    (call.op = CP /\ log # <<>> /\ loc.bound) =>
        /\ loc.dtxs = RSub(loc.coarse_delays, Rat(hist.sum))
        /\ loc.drxs = RAdd(loc.coarse_delays, Rat(hist.sum))
        /\ RAdd(loc.dtxs, loc.drxs) = RMul(Rat(2), loc.coarse_delays)
        /\ loc.old_dtxs = loc.dtxs /\ loc.old_drxs = loc.drxs

\* three turns with skews that do not cancel
C23_Witness ==
    /\ call.op = CP /\ log # <<>> /\ loc.bound
    /\ hist.n = 3
    /\ hist.sum # 0 /\ hist.sum # loc.mean_skew
    /\ loc.dtxs # loc.drxs

\* C24: every slave.write_sfp_config of a calibrate_device_port run carried
\* the asymmetry that fiber-asymmetry held for "<sfp>-wr<port>" at the call
\* (one write in the setup, one with the coarse delays, one in every turn of
\* the loop), and the pair stored at the end is the (dtx, drx) of the last
\* of them
C24_StoredIsLastWritten ==
    (call.op = CP /\ log # <<>>) =>
        LET key == KeyOf(call.sfp, call.port)
        IN  /\ loc.writes.n = Count(log, "slave.write_sfp_config")
            /\ loc.writes.betas = {call.pre[ASYM][key]}
            /\ (pc = "idle" /\ err = NoError) =>
                  /\ loc.writes.n = 2 + hist.n
                  /\ cfg_dict[DELAY][key] = <<loc.writes.dtx, loc.writes.drx>>

\* a run that ended after two turns, with different delays in its last write
\* and the asymmetry of violet-wr1 in all four
C24_Witness ==
    /\ call.op = CP /\ pc = "idle" /\ err = NoError
    /\ loc.key = "violet-wr1"
    /\ loc.writes.n = 4
    /\ loc.writes.dtx # loc.writes.drx
    /\ DOMAIN cfg_dict[ASYM] = {"blue-wr1", "violet-wr1"}
    /\ loc.writes.betas = {cfg_dict[ASYM]["violet-wr1"]}
    /\ cfg_dict[ASYM]["violet-wr1"] # cfg_dict[ASYM]["blue-wr1"]
    /\ cfg_dict[DELAY][loc.key] = <<loc.writes.dtx, loc.writes.drx>>

====
